---- MODULE Spec2Model ----
(***************************************************************************)
(* Model of src/index.tsx: the App component of the child face predictor.  *)
(* The state is the component's React state (fatherImg, motherImg,         *)
(* fatherDominance, generatingTarget, error, results), the configured      *)
(* credential, the Generation Client calls in flight with the values their *)
(* closures captured, and the position of the generatePrediction           *)
(* invocation suspended at its Promise.allSettled.                         *)
(***************************************************************************)
EXTENDS Integers, FiniteSets, Sequences, TLC

VARIABLES
    fatherImg,        \* <<>> (null) or <<UploadedImage>>
    motherImg,        \* <<>> (null) or <<UploadedImage>>
    fatherDominance,  \* the slider value
    generatingTarget, \* "boy", "girl" or Null
    error,            \* the run-level message or Null
    results,          \* the 6 PredictionResult records, in array order
    apiKey,           \* whether process.env.API_KEY is set
    calls,            \* generateVariation invocations awaiting generateContent
    awaiting,         \* generatePrediction is suspended at Promise.allSettled
    lastCall,         \* history: the latest trigger activation and how it ended
    outcome,          \* history: per task, what its latest call came to
    runs              \* history: how many runs were accepted so far

vars == <<fatherImg, motherImg, fatherDominance, generatingTarget, error,
          results, apiKey, calls, awaiting, lastCall, outcome, runs>>

\* The part of the state the component itself holds and the calls it issued.
programVars == <<fatherImg, motherImg, fatherDominance, generatingTarget,
                 error, results, apiKey, calls, awaiting>>

----------------------------------------------------------------------------
\* Bounds of the model.

\* Distinct image data values the Generation Client can return.
MaxData == 1

\* Runs the model lets a user start.
MaxRuns == 2

\* Longest list of parts in a Generation Client response.
MaxParts == 2

----------------------------------------------------------------------------
\* Values.

Null == "null"

\* An optional field that is absent (imageUrl?, error?) or a null image.
Undefined == <<>>

Genders == {"boy", "girl"}

\* Slider positions the model draws from (the range input runs 0..100).
Weights == {50, 70}

Indices == 1..6

InitialResults ==
    << [gender |-> "boy",  age |-> 5,  loading |-> FALSE, imageUrl |-> Undefined, error |-> Undefined],
       [gender |-> "boy",  age |-> 15, loading |-> FALSE, imageUrl |-> Undefined, error |-> Undefined],
       [gender |-> "boy",  age |-> 25, loading |-> FALSE, imageUrl |-> Undefined, error |-> Undefined],
       [gender |-> "girl", age |-> 5,  loading |-> FALSE, imageUrl |-> Undefined, error |-> Undefined],
       [gender |-> "girl", age |-> 15, loading |-> FALSE, imageUrl |-> Undefined, error |-> Undefined],
       [gender |-> "girl", age |-> 25, loading |-> FALSE, imageUrl |-> Undefined, error |-> Undefined] >>

\* Files a user can pick: an image, and a file that is no image.
Files ==
    {[type |-> "image/png", data |-> "iVBORw0KGgo"],
     [type |-> "text/plain", data |-> "aGVsbG8"]}

IsImageType(type) == type = "image/png"

\* reader.result is "data:<type>;base64,<data>"; base64Data is what follows
\* the comma.
ReadAsDataURL(file) == <<"data:", file.type, ";base64", ",", file.data>>

UploadedImage(file) ==
    [preview    |-> ReadAsDataURL(file),
     base64Data |-> ReadAsDataURL(file)[5],
     mimeType   |-> file.type]

\* A response part: 0 is a text part, d > 0 a part with inlineData d.
PartLists == UNION {[1..n -> 0..MaxData] : n \in 0..MaxParts}

\* What generateContent comes to: it throws, it returns no candidates, or it
\* returns the parts of its first candidate.
Responses ==
    {[kind |-> "throws", parts |-> <<>>], [kind |-> "nocandidates", parts |-> <<>>]}
        \cup {[kind |-> "parts", parts |-> p] : p \in PartLists}

\* The loop over the parts: the first part with inlineData, as a data URL;
\* <<>> when there is none (generatedUrl stays '').
RECURSIVE FirstInline(_, _)
FirstInline(parts, k) ==
    IF k > Len(parts) THEN Undefined
    ELSE IF parts[k] > 0 THEN <<"data:image/png;base64,", parts[k]>>
    ELSE FirstInline(parts, k + 1)

GeneratedUrl(resp) ==
    IF resp.kind = "parts" THEN FirstInline(resp.parts, 1) ELSE Undefined

GenderTerm(item) ==
    IF item.gender = "boy"
    THEN (IF item.age > 18 THEN "man" ELSE "boy")
    ELSE (IF item.age > 18 THEN "woman" ELSE "girl")

\* Mutant of Prompt: the instruction carries the initial even blend instead
\* of the slider's value.
PromptEvenBlend(item) ==
    [age |-> item.age, genderTerm |-> GenderTerm(item),
     fatherPct |-> 50, motherPct |-> 50]

\* The instruction text, by the values it is built from.
Prompt(item) ==
    [age |-> item.age, genderTerm |-> GenderTerm(item),
     fatherPct |-> fatherDominance, motherPct |-> 100 - fatherDominance]

\* What a ResultCard shows for a task.
Status(r) ==
    IF r.loading THEN "loading"
    ELSE IF r.error # Undefined THEN "failed"
    ELSE IF r.imageUrl # Undefined THEN "ready"
    ELSE "idle"

TasksOf(g) == {i \in Indices : results[i].gender = g}

----------------------------------------------------------------------------
Init ==
    /\ fatherImg = Undefined
    /\ motherImg = Undefined
    /\ fatherDominance = 50
    /\ generatingTarget = Null
    /\ error = Null
    /\ results = InitialResults
    /\ apiKey \in BOOLEAN
    /\ calls = {}
    /\ awaiting = FALSE
    /\ lastCall = [gender |-> Null, result |-> "none"]
    /\ outcome = [i \in Indices |-> [kind |-> "none", url |-> Undefined]]
    /\ runs = 0

----------------------------------------------------------------------------
\* handleFileUpload: a file that is no image sets the error; an image is
\* read, and onloadend stores it for the parent and clears the error.
handleFileUpload(file, parent) ==
    /\ IF ~IsImageType(file.type)
       THEN /\ error' = "Please upload a valid image file."
            /\ UNCHANGED <<fatherImg, motherImg>>
       ELSE /\ IF parent = "father"
               THEN fatherImg' = <<UploadedImage(file)>> /\ UNCHANGED motherImg
               ELSE motherImg' = <<UploadedImage(file)>> /\ UNCHANGED fatherImg
            /\ error' = Null
    /\ UNCHANGED <<fatherDominance, generatingTarget, results, apiKey, calls,
                   awaiting, lastCall, outcome, runs>>

\* The slider's onChange.
setFatherDominance(w) ==
    /\ w # fatherDominance
    /\ fatherDominance' = w
    /\ UNCHANGED <<fatherImg, motherImg, generatingTarget, error, results,
                   apiKey, calls, awaiting, lastCall, outcome, runs>>

\* Mutant of ResetResults: the reset only raises the loading flag and keeps
\* the previous image and error.
ResetKeepingOutcome(targetGender) ==
    [i \in Indices |->
        IF results[i].gender = targetGender
        THEN [results[i] EXCEPT !.loading = TRUE]
        ELSE results[i]]

\* Mutant of ResetResults: the reset forgets the gender filter.
ResetAllResults(targetGender) ==
    [i \in Indices |->
        [results[i] EXCEPT !.loading = TRUE, !.error = Undefined,
                           !.imageUrl = Undefined]]

\* The reset of the target gender's results to the loading state.
ResetResults(targetGender) ==
    [i \in Indices |->
        IF results[i].gender = targetGender
        THEN [results[i] EXCEPT !.loading = TRUE, !.error = Undefined,
                                !.imageUrl = Undefined]
        ELSE results[i]]

\* Mutant of SpawnedCalls: the task list is not filtered by gender.
SpawnedForAll(targetGender) ==
    {[index |-> i, item |-> results[i], prompt |-> Prompt(results[i]),
      father |-> fatherImg, mother |-> motherImg] : i \in Indices}

\* The calls generatePrediction spawns: one generateVariation(item, index)
\* per task of the target gender. item is the task as rendered when the
\* handler was created, and the closure holds the images and the weight of
\* that render.
SpawnedCalls(targetGender) ==
    {[index |-> i, item |-> results[i], prompt |-> Prompt(results[i]),
      father |-> fatherImg, mother |-> motherImg] : i \in TasksOf(targetGender)}

\* Mutant of InputsMissing: the guard forgets the mother.
FatherMissing == fatherImg = Undefined

\* The first guard of generatePrediction.
InputsMissing == fatherImg = Undefined \/ motherImg = Undefined

\* Mutant of CredentialMissing: the guard is gone.
CredentialAssumed == FALSE

\* The second guard of generatePrediction.
CredentialMissing == ~apiKey

\* generatePrediction past its guards, up to its await: the busy flag is
\* set, the error cleared, the gender's results reset and its 3 calls issued.
StartRun(targetGender) ==
    /\ runs < MaxRuns
    /\ generatingTarget' = targetGender
    /\ error' = Null
    /\ results' = ResetResults(targetGender)
    /\ calls' = calls \cup SpawnedCalls(targetGender)
    /\ awaiting' = TRUE
    /\ lastCall' = [gender |-> targetGender, result |-> "started"]
    /\ outcome' = [i \in Indices |->
                     IF i \in TasksOf(targetGender)
                     THEN [kind |-> "none", url |-> Undefined]
                     ELSE outcome[i]]
    /\ runs' = runs + 1
    /\ UNCHANGED <<fatherImg, motherImg, fatherDominance, apiKey>>

\* generatePrediction up to its await: the two guards, then the run.
generatePrediction(targetGender) ==
    IF InputsMissing
    THEN /\ error' = "Please upload photos of both parents first."
         /\ lastCall' = [gender |-> targetGender, result |-> "MissingInput"]
         /\ UNCHANGED <<fatherImg, motherImg, fatherDominance, generatingTarget,
                        results, apiKey, calls, awaiting, outcome, runs>>
    ELSE IF CredentialMissing
    THEN /\ error' = "API Key is missing."
         /\ lastCall' = [gender |-> targetGender, result |-> "MissingCredential"]
         /\ UNCHANGED <<fatherImg, motherImg, fatherDominance, generatingTarget,
                        results, apiKey, calls, awaiting, outcome, runs>>
    ELSE StartRun(targetGender)

\* Mutant of Disabled: the attribute forgets the busy flag.
DisabledIgnoringBusy(g) == fatherImg = Undefined \/ motherImg = Undefined

\* Mutant of Disabled: only the running gender's button is disabled.
DisabledOwnGender(g) ==
    generatingTarget = g \/ fatherImg = Undefined \/ motherImg = Undefined

\* The disabled attribute of a gender's button.
Disabled(g) ==
    generatingTarget # Null \/ fatherImg = Undefined \/ motherImg = Undefined

\* A user activates the button of gender g: a disabled button runs no
\* handler, an enabled one runs generatePrediction(g).
onClick(g) ==
    IF Disabled(g)
    THEN /\ lastCall' = [gender |-> g, result |-> "disabled"]
         /\ UNCHANGED programVars
         /\ UNCHANGED <<outcome, runs>>
    ELSE generatePrediction(g)

\* generatePrediction(g) called by a caller that has checked the busy flag
\* but not the inputs: the function's own guards decide, which the button's
\* disabled attribute otherwise shadows.
Invoke(g) ==
    /\ generatingTarget = Null
    /\ generatePrediction(g)

\* The record generateVariation writes at its index when the image arrived.
SuccessRecord(item, url) == [item EXCEPT !.loading = FALSE, !.imageUrl = url]

\* Mutant of FailureRecord: the task shows the message of the error caught.
FailureRecordVerbatim(item) ==
    [item EXCEPT !.loading = FALSE, !.error = <<"No image generated">>]

\* The record generateVariation writes at its index in its catch block.
FailureRecord(item) ==
    [item EXCEPT !.loading = FALSE, !.error = <<"Failed to generate">>]

\* The values generatedUrl can take over all responses.
GeneratedUrls == {GeneratedUrl(resp) : resp \in Responses}

\* Mutant of WriteAt: the updater matches the tasks by gender instead of
\* writing at the index.
WriteByGender(current, index, record) ==
    [i \in DOMAIN current |->
        IF current[i].gender = record.gender THEN record ELSE current[i]]

\* The functional update of setResults: a copy of the current array with
\* the record written at the index.
WriteAt(current, index, record) == [current EXCEPT ![index] = record]

\* generateVariation after its await: the call c came to a response whose
\* parsing left generatedUrl ('' is Undefined; a call that threw has none).
generateVariation(c, generatedUrl) ==
    /\ c \in calls
    /\ IF generatedUrl # Undefined
       THEN /\ results' = WriteAt(results, c.index, SuccessRecord(c.item, generatedUrl))
            /\ outcome' = [outcome EXCEPT ![c.index] = [kind |-> "ok", url |-> generatedUrl]]
       ELSE /\ results' = WriteAt(results, c.index, FailureRecord(c.item))
            /\ outcome' = [outcome EXCEPT ![c.index] = [kind |-> "fail", url |-> Undefined]]
    /\ calls' = calls \ {c}
    /\ UNCHANGED <<fatherImg, motherImg, fatherDominance, generatingTarget,
                   error, apiKey, awaiting, lastCall, runs>>

\* Mutant of AllSettled: a failed call rejects the join, and the rest of the
\* handler is skipped.
SettledAndNoneFailed ==
    calls = {} /\ \A i \in TasksOf(generatingTarget) : outcome[i].kind = "ok"

\* Mutant of AllSettled: the join returns at the first call to fail, as a
\* short-circuiting join does.
SettledOrOneFailed ==
    calls = {} \/ \E i \in TasksOf(generatingTarget) : outcome[i].kind = "fail"

\* Mutant of AllSettled: the join returns at the first call to settle.
FirstSettled == Cardinality(calls) < 3

\* Promise.allSettled over the invocation's promises has settled.
AllSettled == calls = {}

\* generatePrediction after its await: the busy flag is cleared.
FanIn ==
    /\ awaiting
    /\ AllSettled
    /\ generatingTarget' = Null
    /\ awaiting' = FALSE
    /\ UNCHANGED <<fatherImg, motherImg, fatherDominance, error, results,
                   apiKey, calls, lastCall, outcome, runs>>

Next ==
    \/ \E file \in Files, parent \in {"father", "mother"} : handleFileUpload(file, parent)
    \/ \E g \in Genders : onClick(g)
    \/ \E c \in calls, generatedUrl \in GeneratedUrls : generateVariation(c, generatedUrl)
    \/ FanIn

\* The App driven by its user and by the Generation Client, the slider left
\* where it starts.
Spec == Init /\ [][Next]_vars

NextHandler ==
    \/ Next
    \/ \E g \in Genders : Invoke(g)

\* The same, with generatePrediction also called directly.
SpecHandler == Init /\ [][NextHandler]_vars

\* The program with its scheduling: every pending call to the generation
\* client eventually returns or fails, and the continuation of a settled
\* await is eventually run by the event loop.
SpecLive ==
    /\ Spec
    /\ WF_vars(\E c \in calls : \E u \in GeneratedUrls : generateVariation(c, u))
    /\ WF_vars(FanIn)

NextBlend ==
    \/ Next
    \/ \E w \in Weights : setFatherDominance(w)

\* The same as Spec, with the slider moved at any time.
SpecBlend == Init /\ [][NextBlend]_vars

----------------------------------------------------------------------------
\* Derived notions the properties below are stated in.

\* Some task of gender g is in status loading.
Loading(g) == \E i \in TasksOf(g) : results[i].loading

\* Some Generation Client call of a run of gender g has not settled.
InFlight(g) == \E c \in calls : c.item.gender = g

\* The latest call of task i has settled, and g's run has no call pending.
Settled(i) == outcome[i].kind # "none" /\ ~InFlight(results[i].gender)

ParentsPresent == fatherImg # Undefined /\ motherImg # Undefined

OrchestrationVars == <<results, generatingTarget, calls, awaiting>>

----------------------------------------------------------------------------
\* C1: every task carries at most one of {imageUrl, error} once resolved,
\* and neither while it is idle or loading.
C1_ExclusiveResult ==
    \A i \in Indices :
        /\ ~(results[i].imageUrl # Undefined /\ results[i].error # Undefined)
        /\ results[i].loading =>
              results[i].imageUrl = Undefined /\ results[i].error = Undefined

\* C2: every step of a run of gender g (its start, each completion, its
\* fan-in) changes only tasks of gender g; the other gender's 3 tasks keep
\* their loading flag, image payload and error message.
C2_OnlyTargetGender ==
    [][\A i \in Indices :
          results'[i] # results[i] =>
              results[i].gender =
                  (IF generatingTarget # Null THEN generatingTarget
                   ELSE generatingTarget')]_vars

\* A run of the girls has had all its completions while the boys hold the
\* results of an earlier run.
C2_Witness ==
    /\ generatingTarget = "girl"
    /\ calls = {}
    /\ \A i \in TasksOf("girl") : outcome[i].kind # "none"
    /\ \A i \in TasksOf("boy") : outcome[i].kind # "none"

\* C3: once a run has settled, each of its tasks is ready with an image
\* payload if and only if its own call succeeded with an image, and failed
\* otherwise.
C3_FailureIsolation ==
    \A i \in Indices :
        Settled(i) =>
            /\ outcome[i].kind = "ok" =>
                  Status(results[i]) = "ready" /\ results[i].imageUrl # Undefined
            /\ outcome[i].kind = "fail" => Status(results[i]) = "failed"

\* C4 as stated: for each gender g, the busy flag shows no run for g if and
\* only if no task of gender g is loading.
C4_BarrierIff ==
    \A g \in Genders : (generatingTarget # g) <=> ~Loading(g)

\* C4 as amended: whenever a task of gender g is loading, the busy flag
\* equals g; and the flag equals g with no task of g loading only between
\* the run's last completion and its fan-in step.
C4_LoadingImpliesBusy ==
    \A g \in Genders :
        /\ Loading(g) => generatingTarget = g
        /\ (generatingTarget = g /\ ~Loading(g)) => (awaiting /\ calls = {})

\* A run in the middle: one boy task settled, another still loading.
C4_Witness ==
    /\ generatingTarget = "boy"
    /\ \E i \in TasksOf("boy") : results[i].loading
    /\ \E i \in TasksOf("boy") : outcome[i].kind # "none"

C6_MissingInput ==
    [][\A g \in Genders :
          (Invoke(g) /\ ~ParentsPresent) =>
              /\ UNCHANGED OrchestrationVars
              /\ error' = "Please upload photos of both parents first."]_vars

\* generatePrediction has been called with the mother payload absent.
C6_Witness ==
    /\ lastCall.result = "MissingInput"
    /\ error = "Please upload photos of both parents first."
    /\ fatherImg # Undefined
    /\ motherImg = Undefined
    /\ generatingTarget = Null
    /\ calls = {}

\* C7: after a later run of a gender settles, a task whose call succeeded
\* holds that call's payload and no error message, and a task whose call
\* failed holds an error message and no image payload, whatever the earlier
\* run left in it.
C7_NoLeakBetweenRuns ==
    \A i \in Indices :
        Settled(i) =>
            /\ outcome[i].kind = "ok" =>
                  results[i].imageUrl = outcome[i].url /\ results[i].error = Undefined
            /\ outcome[i].kind = "fail" =>
                  results[i].error # Undefined /\ results[i].imageUrl = Undefined

C10_MissingCredential ==
    [][\A g \in Genders :
          (onClick(g) /\ ParentsPresent /\ generatingTarget = Null /\ ~apiKey) =>
              /\ UNCHANGED OrchestrationVars
              /\ error' = "API Key is missing."]_vars

\* A trigger was activated with both payloads present and no API key.
C10_Witness ==
    /\ lastCall.result = "MissingCredential"
    /\ error = "API Key is missing."
    /\ ParentsPresent
    /\ ~apiKey
    /\ results = InitialResults
    /\ calls = {}

\* C11: the step that sets the busy flag back to none happens only after
\* every one of the run's 3 calls has resolved and its task record has been
\* updated, also when a sibling has failed before.
C11_FanInAfterAllSettled ==
    [][(generatingTarget # Null /\ generatingTarget' = Null) =>
          /\ calls = {}
          /\ \A i \in TasksOf(generatingTarget) :
                outcome[i].kind # "none" /\ ~results[i].loading]_vars

\* A run has fanned in after one of its calls failed and another succeeded.
C11_Witness ==
    /\ generatingTarget = Null
    /\ ~awaiting
    /\ \E g \in Genders :
          /\ \A i \in TasksOf(g) : outcome[i].kind # "none" /\ ~results[i].loading
          /\ \E i \in TasksOf(g) : outcome[i].kind = "fail"
          /\ \E i \in TasksOf(g) : outcome[i].kind = "ok"

\* C12: when every call eventually returns or fails, every accepted run
\* eventually settles: each of its 3 tasks leaves the loading state and the
\* busy flag returns to none.
C12_RunEventuallySettles ==
    (generatingTarget # Null) ~>
        (generatingTarget = Null /\ \A i \in Indices : ~results[i].loading)

\* A run that had a failing call has settled and released the busy flag.
C12_Witness ==
    /\ generatingTarget = Null
    /\ calls = {}
    /\ lastCall.result = "started"
    /\ \A i \in TasksOf(lastCall.gender) : ~results[i].loading
    /\ \E i \in TasksOf(lastCall.gender) : outcome[i].kind = "fail"

\* C13: right after an accepted run for g has started, while none of its
\* calls has settled, the busy flag is g and the 3 tasks of g are loading
\* with no image and no error, whatever their status before.
C13_BeginRunPostcondition ==
    \A g \in Genders :
        Cardinality({c \in calls : c.item.gender = g}) = 3 =>
            /\ generatingTarget = g
            /\ \A i \in TasksOf(g) :
                  /\ results[i].loading
                  /\ results[i].imageUrl = Undefined
                  /\ results[i].error = Undefined

\* A re-run has just started over tasks that were ready and failed before.
C13_Witness ==
    \E g \in Genders :
        /\ Cardinality({c \in calls : c.item.gender = g}) = 3
        /\ \E c \in calls : c.item.imageUrl # Undefined
        /\ \E c \in calls : c.item.error # Undefined

\* C14: an accepted run for g issues exactly one call for each of the 3
\* tasks of g and none for the other gender, and no other step issues a
\* call, so a failed task is not tried again within the run.
C14_SingleAttempt ==
    [][/\ \A g \in Genders :
             (runs' = runs + 1 /\ generatingTarget' = g) =>
                 /\ Cardinality(calls' \ calls) = 3
                 /\ {c.index : c \in calls' \ calls} = TasksOf(g)
                 /\ \A c \in calls' \ calls : c.item.gender = g
       /\ runs' = runs => calls' \subseteq calls]_vars

\* A call of a run has failed while a sibling is still pending, and the
\* failed task has no call in flight.
C14_Witness ==
    \E i \in Indices :
        /\ outcome[i].kind = "fail"
        /\ \E c \in calls : c.item.gender = results[i].gender
        /\ \A c \in calls : c.index # i

\* C15: when a call fails or its response holds no image, the task gets the
\* fixed message "Failed to generate" and shows as failed, whatever the
\* reason; the run-level error is left as it was and the handler still
\* waits for its join, so it completes normally.
C15_TaskLevelFailure ==
    [][\A c \in calls \ calls' :
          \A u \in {GeneratedUrl(resp) :
                      resp \in {r \in Responses :
                                  r.kind = "parts" =>
                                      \A k \in 1..Len(r.parts) : r.parts[k] = 0}} :
          generateVariation(c, u)
          => /\ results'[c.index].error = <<"Failed to generate">>
             /\ Status(results'[c.index]) = "failed"
             /\ error' = error
             /\ awaiting' = awaiting
             /\ generatingTarget' = generatingTarget]_vars

\* A run with a failed task has completed: the task carries the generic
\* message, the busy flag is released and there is no run-level error.
C15_Witness ==
    /\ generatingTarget = Null
    /\ ~awaiting
    /\ error = Null
    /\ \E i \in Indices :
          /\ outcome[i].kind = "fail"
          /\ results[i].error = <<"Failed to generate">>
          /\ Status(results[i]) = "failed"

\* C16: a task that is ready or failed keeps its record until the next
\* accepted run for its gender starts; no completion of any call changes it.
C16_FinalOnceSettled ==
    [][\A i \in Indices :
          (Status(results[i]) \in {"ready", "failed"} /\ results'[i] # results[i])
          => (runs' = runs + 1 /\ generatingTarget' = results[i].gender)]_vars

\* Two tasks of a run are settled while its third call is pending, next to
\* a settled task of the other gender's earlier run.
C16_Witness ==
    \E i, j, k \in Indices :
        /\ results[i].gender = results[j].gender
        /\ results[k].gender # results[i].gender
        /\ Status(results[i]) \in {"ready", "failed"}
        /\ outcome[i].kind # "none"
        /\ Status(results[k]) \in {"ready", "failed"}
        /\ outcome[k].kind # "none"
        /\ outcome[j].kind # "none"
        /\ \E c \in calls : c.item.gender = results[i].gender

\* C17: every call issued by an accepted run carries in its instruction the
\* father weight current at that moment and 100 minus it for the mother, and
\* a change of the weight leaves the calls in flight as they are.
C17_WeightReadAtStart ==
    [][/\ \A c \in calls' \ calls :
             /\ c.prompt.fatherPct = fatherDominance
             /\ c.prompt.motherPct = 100 - fatherDominance
       /\ fatherDominance' # fatherDominance => calls' = calls]_vars

\* The weight was moved while a run was in flight: its 3 calls carry the
\* weight of the start, which is no longer the current one.
C17_Witness ==
    /\ Cardinality(calls) = 3
    /\ \A c \in calls : c.prompt.fatherPct = 70 /\ c.prompt.motherPct = 30
    /\ fatherDominance = 50

\* C18: the loading tasks all belong to one gender: a boy task and a girl
\* task are never loading at the same time.
C18_OneGenderLoading ==
    \A i, j \in Indices :
        (results[i].loading /\ results[j].loading)
        => results[i].gender = results[j].gender

\* A run is loading and a click on the other gender's button was refused.
C18_Witness ==
    \E g, h \in Genders :
        /\ g # h
        /\ Loading(g)
        /\ ~Loading(h)
        /\ lastCall = [gender |-> h, result |-> "disabled"]

\* C19: the results array always holds 6 tasks, and the task at each
\* position keeps the gender and the age it was created with: 3 per gender
\* with the ages 5, 15 and 25.
C19_RegistryShape ==
    /\ DOMAIN results = 1..6
    /\ \A i \in DOMAIN results :
          /\ results[i].gender = InitialResults[i].gender
          /\ results[i].age = InitialResults[i].age
    /\ \A g \in Genders :
          /\ Cardinality(TasksOf(g)) = 3
          /\ {results[i].age : i \in TasksOf(g)} = {5, 15, 25}

\* Both genders have had a run, with a ready and a failed task among the
\* results, and nothing is pending.
C19_Witness ==
    /\ calls = {}
    /\ generatingTarget = Null
    /\ \A i \in Indices : outcome[i].kind # "none"
    /\ \E i \in Indices : Status(results[i]) = "ready"
    /\ \E i \in Indices : Status(results[i]) = "failed"

====
